---- MODULE Spec2Model ----
(***************************************************************************)
(* State-machine model of the blog agent: process_batch / process_topic    *)
(* (src/src/agents/blog_agent.py), the image waterfall                     *)
(* (src/src/services/image_handler.py), the publishing client              *)
(* (src/src/services/wordpress_client.py), the task sheet                  *)
(* (src/src/services/sheets_client.py) and the tenacity retry decorator    *)
(* that wraps get_image_for_topic, upload_featured_image and create_post.  *)
(*                                                                         *)
(* Every outbound request is one action whose outcome is chosen by the     *)
(* environment.  Strings that the code only compares or copies are TLA+    *)
(* strings; strings that the code searches or lower-cases (site domain,    *)
(* site URL) are sequences of one-character strings.                       *)
(***************************************************************************)
EXTENDS Integers, Sequences, FiniteSets, TLC

\* ------------------------------------------------------------------ bounds
\* Number of data rows of the Topics sheet.
NumRows == 2
\* Budget of environment faults (a request that does not give its nominal
\* answer) over one behaviour of BatchSpec.
MaxFaults == 3

\* ------------------------------------------------------- program constants
\* stop_after_attempt(3) of the three retry decorators.
MaxAttempts == 3
\* wait_exponential(min=1, max=10) on get_image_for_topic.
ImageWaitMin == 1
ImageWaitMax == 10
\* wait_exponential(min=2, max=30) on upload_featured_image and create_post.
WpWaitMin == 2
WpWaitMax == 30
\* enumerate(all_records, start=2): row 1 of the sheet holds the headers.
FirstRow == 2

\* --------------------------------------------------------------- settings
\* settings.wordpress_sites, in configuration order.
wordpress_sites ==
    << [name |-> "SiteA", url |-> <<"W", ".", "a">>],
       [name |-> "SiteB", url |-> <<"w", ".", "b">>] >>

NoSite == [name |-> "", url |-> <<>>]

\* ---------------------------------------------------------------- strings
\* str.lower() on one character of the alphabet used here.
LowerChar(c) ==
    CASE c = "A" -> "a"
      [] c = "B" -> "b"
      [] c = "W" -> "w"
      [] OTHER -> c

\* str.lower()
Lower(s) == [i \in 1..Len(s) |-> LowerChar(s[i])]

\* Python's `sub in s` on strings: sub occurs as a contiguous slice of s.
Contains(sub, s) ==
    \E i \in 0..Len(s) :
        /\ i + Len(sub) <= Len(s)
        /\ \A j \in 1..Len(sub) : s[i + j] = sub[j]

\* row.get("Status", "").strip().lower() on the status texts used here.
StatusLower(st) ==
    CASE st \in {"Completed", "COMPLETED", " completed "} -> "completed"
      [] st \in {"Processing", "PROCESSING", " Processing"} -> "processing"
      [] st \in {"Failed", "FAILED", "failed "} -> "failed"
      [] st \in {"Pending", "PENDING"} -> "pending"
      [] st = "Done" -> "done"
      [] st = " " -> ""
      [] OTHER -> st

\* ------------------------------------------------------------------ state
VARIABLES
    sheet,      \* Topics sheet: data rows, [domain, status, url]
    logs,       \* Logs sheet: appended rows
    wpPosts,    \* posts the publishing target has created
    settings,   \* [log_to_sheet]
    faults,     \* remaining fault budget; -1 = unlimited
    batch,      \* process_batch: [limit, topics, idx, stats]
    pc,         \* position of the single thread
    loc,        \* locals of the running process_topic call
    cp,         \* locals of the running create_post / upload attempt
    ten,        \* retry decorators: attempts and sleeps per wrapped operation
    hist,       \* what the running process_topic call has done so far
    lab,        \* a _get_or_create_categories / _get_or_create_tags call
    pend,       \* a get_pending_topics call: its argument and its result
    gen,        \* a content generator call: its input and its result
    runs,       \* the scheduler's jobs: the run_batch_job(1) call of each
    cli,        \* one invocation of main, or one call of a notification method
    find        \* a _find_site_for_domain call: its argument and its result

\* The state of the calls that the specifications other than Spec and
\* BatchSpec follow on their own.
units == <<lab, pend, gen, runs, cli, find>>

vars == <<sheet, logs, wpPosts, settings, faults, batch, pc, loc, cp, ten, hist,
          lab, pend, gen, runs, cli, find>>

WrappedOps == {"get_image_for_topic", "upload_featured_image", "create_post"}

NoImage == [source |-> "none", alt_text |-> ""]
NoPost == [id |-> 0, link |-> ""]

LocInit ==
    [ row |-> 0, site |-> NoSite,
      seo |-> FALSE, content |-> FALSE, word_count |-> 0, taxonomy |-> FALSE,
      categories |-> <<>>, tags |-> <<>>,
      alt_text |-> "", image_metadata |-> NoImage, image_data |-> FALSE,
      connected |-> FALSE,
      answer |-> "",           \* the answer test_connection got
      post_result |-> NoPost,
      wordpress_post_id |-> 0, wordpress_url |-> "",
      exc |-> "", ret |-> "none" ]

CpInit ==
    [ featured_media_id |-> 0, media_id |-> 0, upload_ret |-> 0,
      category_ids |-> <<>>, tag_ids |-> <<>>,
      stages |-> <<>>,         \* stages of this create_post attempt, in order
      outcome |-> "",          \* answer to this attempt's post request
      featured_media |-> 0,    \* payload["featured_media"] of it, 0 for none
      image |-> NoImage, result |-> NoPost ]

TenInit ==
    [ attempts |-> [op \in WrappedOps |-> 0],
      sleeps |-> [op \in WrappedOps |-> <<>>],
      exc |-> "", last |-> "" ]

HistInit ==
    [ steps |-> <<>>,          \* steps of process_topic, in the order started
      tiers |-> <<>>,          \* provider calls of get_image_for_topic, in order
      statusCalls |-> <<>>,    \* mark_topic_status calls: [status, written]
      logCalls |-> <<>>,       \* log_post_result calls: [log, appended]
      mediaUploads |-> 0,      \* media upload requests sent
      uploaded |-> 0,          \* media upload requests the target stored
      postRequests |-> 0,      \* post-creation requests sent
      created |-> 0 ]          \* post-creation requests the target accepted

StatsInit == [success |-> 0, failed |-> 0, total |-> 0]

StatusCall(status, outcome) == [status |-> status, written |-> outcome # "fail"]

\* The limit argument: None, or an integer.
NoLimit == [none |-> TRUE, n |-> 0]
Limit(n) == [none |-> FALSE, n |-> n]
\* Python truthiness of `limit`: None and 0 are false.
Truthy(limit) == ~limit.none /\ limit.n # 0

BatchInit ==
    [ limit |-> NoLimit, topics |-> <<>>, idx |-> 0, stats |-> StatsInit,
      logCalls |-> 0,          \* log_post_result calls made during the batch
      trueReturns |-> 0 ]      \* process_topic calls that returned True

\* A fault may be taken while the budget allows it.
CanFault == faults # 0
Spend(nominal) == IF nominal \/ faults = -1 THEN faults ELSE faults - 1
Allowed(nominal) == nominal \/ CanFault

\* Status texts and site domains a sheet row can hold before the run.
InitStatuses == {"", "Completed"}
InitDomains == { <<"a">>, <<"z">> }

SheetRows(n) ==
    [1..n -> [domain : InitDomains, status : InitStatuses, url : {""}]]

InitCommon ==
    /\ logs = <<>>
    /\ wpPosts = <<>>
    /\ settings \in [log_to_sheet : BOOLEAN]
    /\ batch = BatchInit
    /\ pc = "idle"
    /\ loc = LocInit
    /\ cp = CpInit
    /\ ten = TenInit
    /\ hist = HistInit
    /\ lab = <<>>
    /\ pend = <<>>
    /\ gen = <<>>
    /\ runs = <<>>
    /\ cli = <<>>
    /\ find = <<>>

\* One row, any behaviour of the environment.
Init ==
    /\ sheet \in SheetRows(1)
    /\ faults = -1
    /\ InitCommon

\* Up to NumRows rows, at most MaxFaults environment faults, under the
\* default LOG_TO_SHEET (on); Spec covers both values of the setting.
BatchInitState ==
    /\ sheet \in UNION { SheetRows(n) : n \in 1..NumRows }
    /\ faults = MaxFaults
    /\ InitCommon
    /\ settings.log_to_sheet

\* ----------------------------------------------------------- sheets client
\* The skipped statuses with "processing" left out.
ExcludedWithoutProcessing == {"completed", "failed"}

\* `if status in ["completed", "processing", "failed"]: continue`
Excluded == {"completed", "processing", "failed"}

RECURSIVE PendingFrom(_, _, _, _)
\* The loop of get_pending_topics from data row i on, `acc` the topics so far.
PendingFrom(rows, limit, i, acc) ==
    IF i > Len(rows) THEN acc
    ELSE IF StatusLower(rows[i].status) \in Excluded
         THEN PendingFrom(rows, limit, i + 1, acc)
    ELSE LET topic == [row_number |-> i + FirstRow - 1,
                       site_domain |-> rows[i].domain]
             acc2 == Append(acc, topic)
         IN  IF Truthy(limit) /\ Len(acc2) >= limit.n
             THEN acc2
             ELSE PendingFrom(rows, limit, i + 1, acc2)

\* get_pending_topics(limit); readOk FALSE is the worksheet read raising,
\* which returns [].
get_pending_topics(rows, limit, readOk) ==
    IF readOk THEN PendingFrom(rows, limit, 1, <<>>) ELSE <<>>

\* mark_topic_status(row_number, status, post_url) on the sheet.  outcome:
\* "ok"; "fail" (a sheet call raises before the status cell is updated);
\* "partial" (the status cell is updated, the Post URL update raises).
\* Every exception is logged and swallowed.
mark_topic_status(rows, row_number, status, post_url, outcome) ==
    LET i == row_number - FirstRow + 1 IN
    IF outcome = "fail" THEN rows
    ELSE IF outcome = "partial" \/ post_url = ""
         THEN [rows EXCEPT ![i].status = status]
    ELSE [rows EXCEPT ![i].status = status, ![i].url = post_url]

\* log_post_result(post_log): nothing when log_to_sheet is off; otherwise
\* append_row, whose exception is logged and swallowed.
log_post_result(rows, post_log, appendOk) ==
    IF ~settings.log_to_sheet THEN rows
    ELSE IF appendOk THEN Append(rows, post_log)
    ELSE rows

\* ------------------------------------------------------------- blog agent
RECURSIVE FindSiteFrom(_, _)
FindSiteFrom(domain, i) ==
    IF i > Len(wordpress_sites) THEN NoSite
    ELSE IF Contains(Lower(domain), Lower(wordpress_sites[i].url))
         THEN wordpress_sites[i]
    ELSE FindSiteFrom(domain, i + 1)

\* _find_site_for_domain: the first configured site whose URL contains domain.
_find_site_for_domain(domain) == FindSiteFrom(domain, 1)

\* The limits main passes: `--batch N` (any integer the command line
\* holds) and the scheduler's 1.
Limits == {Limit(0), Limit(1)}

\* process_batch up to the loop: read the pending topics, set up stats.
process_batch ==
    /\ pc = "idle"
    /\ \E limit \in Limits, readOk \in BOOLEAN :
        LET topics == get_pending_topics(sheet, limit, readOk) IN
        /\ Allowed(readOk)
        /\ faults' = Spend(readOk)
        /\ IF topics = <<>>
           THEN /\ batch' = [limit |-> limit, topics |-> topics, idx |-> 0,
                             stats |-> StatsInit, logCalls |-> 0,
                             trueReturns |-> 0]
                /\ pc' = "batch_return"
           ELSE /\ batch' = [limit |-> limit, topics |-> topics, idx |-> 1,
                             stats |-> [StatsInit EXCEPT !.total = Len(topics)],
                             logCalls |-> 0, trueReturns |-> 0]
                /\ pc' = "batch_loop"
    /\ UNCHANGED <<units, sheet, logs, wpPosts, settings, loc, cp, ten, hist>>

CurTopic == batch.topics[batch.idx]

\* The for loop is exhausted: log the totals and return stats.
process_batch_return ==
    /\ pc = "batch_loop"
    /\ batch.idx > Len(batch.topics)
    /\ pc' = "batch_return"
    /\ UNCHANGED <<units, sheet, logs, wpPosts, settings, faults, batch, loc, cp, ten, hist>>

\* process_batch_no_site that also marks the topic's row Failed.
process_batch_no_site_marks_failed ==
    /\ pc = "batch_loop"
    /\ batch.idx <= Len(batch.topics)
    /\ _find_site_for_domain(CurTopic.site_domain) = NoSite
    /\ batch' = [batch EXCEPT !.stats.failed = @ + 1, !.idx = @ + 1]
    /\ sheet' = mark_topic_status(sheet, CurTopic.row_number, "Failed", "", "ok")
    /\ UNCHANGED <<units, logs, wpPosts, settings, faults, pc, loc, cp, ten, hist>>

\* Loop body, `if not site`: count the topic as failed and continue.
process_batch_no_site ==
    /\ pc = "batch_loop"
    /\ batch.idx <= Len(batch.topics)
    /\ _find_site_for_domain(CurTopic.site_domain) = NoSite
    /\ batch' = [batch EXCEPT !.stats.failed = @ + 1, !.idx = @ + 1]
    /\ UNCHANGED <<units, sheet, logs, wpPosts, settings, faults, pc, loc, cp, ten, hist>>

\* Loop body: call process_topic(topic, site).
process_batch_call ==
    /\ pc = "batch_loop"
    /\ batch.idx <= Len(batch.topics)
    /\ _find_site_for_domain(CurTopic.site_domain) # NoSite
    /\ loc' = [LocInit EXCEPT !.row = CurTopic.row_number,
                              !.site = _find_site_for_domain(CurTopic.site_domain)]
    /\ cp' = CpInit
    /\ ten' = TenInit
    /\ hist' = HistInit
    /\ pc' = "mark_processing"
    /\ UNCHANGED <<units, sheet, logs, wpPosts, settings, faults, batch>>

\* process_batch_count with every topic counted as a success.
process_batch_count_all_success ==
    /\ pc = "returned"
    /\ batch' = [batch EXCEPT !.stats.success = @ + 1, !.idx = @ + 1]
    /\ loc' = LocInit /\ cp' = CpInit /\ ten' = TenInit /\ hist' = HistInit
    /\ pc' = "batch_loop"
    /\ UNCHANGED <<units, sheet, logs, wpPosts, settings, faults>>

\* Loop body after process_topic returned: count success or failure.  The
\* locals of the call that returned are gone.
process_batch_count ==
    /\ pc = "returned"
    /\ batch' = [batch EXCEPT
                    !.stats.success = IF loc.ret = "True" THEN @ + 1 ELSE @,
                    !.stats.failed = IF loc.ret = "True" THEN @ ELSE @ + 1,
                    !.idx = @ + 1]
    /\ loc' = LocInit /\ cp' = CpInit /\ ten' = TenInit /\ hist' = HistInit
    /\ pc' = "batch_loop"
    /\ UNCHANGED <<units, sheet, logs, wpPosts, settings, faults>>

\* ------------------------------------------------------- process_topic
\* An exception reaches the `except Exception` clause of process_topic.
Raise(text) ==
    /\ loc' = [loc EXCEPT !.exc = text]
    /\ pc' = "except"

Step(name) == [hist EXCEPT !.steps = Append(@, name)]

SheetOutcomes == {"ok", "fail"}

\* self.sheets_client.mark_topic_status(topic.row_number, "Processing")
process_topic_mark_processing ==
    /\ pc = "mark_processing"
    /\ \E outcome \in SheetOutcomes :
        /\ Allowed(outcome = "ok")
        /\ faults' = Spend(outcome = "ok")
        /\ sheet' = mark_topic_status(sheet, loc.row, "Processing", "", outcome)
        /\ hist' = [Step("mark_processing") EXCEPT
                       !.statusCalls = Append(@, StatusCall("Processing", outcome))]
    /\ pc' = "seo"
    /\ UNCHANGED <<units, logs, wpPosts, settings, batch, loc, cp, ten>>

\* seo_metadata = generate_seo_metadata(topic): the API call, json.loads and
\* the SEOMetadata validation can each raise.
generate_seo_metadata ==
    /\ pc = "seo"
    /\ hist' = Step("seo")
    /\ \E ok \in BOOLEAN :
        /\ Allowed(ok)
        /\ faults' = Spend(ok)
        /\ IF ok THEN /\ loc' = [loc EXCEPT !.seo = TRUE]
                      /\ pc' = "content"
                 ELSE Raise("seo metadata error")
    /\ UNCHANGED <<units, sheet, logs, wpPosts, settings, batch, cp, ten>>

WordCounts == {800}

\* content = generate_blog_content(topic, seo_metadata)
generate_blog_content ==
    /\ pc = "content"
    /\ hist' = Step("content")
    /\ \E ok \in BOOLEAN, wc \in WordCounts :
        /\ Allowed(ok)
        /\ faults' = Spend(ok)
        /\ IF ok THEN /\ loc' = [loc EXCEPT !.content = TRUE, !.word_count = wc]
                      /\ pc' = "taxonomy"
                 ELSE Raise("content error")
    /\ UNCHANGED <<units, sheet, logs, wpPosts, settings, batch, cp, ten>>

\* What taxonomy.get("categories", []), taxonomy.get("tags", []) can hold.
TaxonomyChoices ==
    { [categories |-> <<>>, tags |-> <<>>],
      [categories |-> <<"c1">>, tags |-> <<"t1">>] }

\* categories, tags = generate_categories_and_tags(topic, content)
generate_categories_and_tags ==
    /\ pc = "taxonomy"
    /\ hist' = Step("taxonomy")
    /\ \E ok \in BOOLEAN, tx \in TaxonomyChoices :
        /\ Allowed(ok)
        /\ faults' = Spend(ok)
        /\ IF ok THEN /\ loc' = [loc EXCEPT !.taxonomy = TRUE,
                                            !.categories = tx.categories,
                                            !.tags = tx.tags]
                      /\ pc' = "alt_text"
                 ELSE /\ tx.categories = <<>>
                      /\ Raise("taxonomy error")
    /\ UNCHANGED <<units, sheet, logs, wpPosts, settings, batch, cp, ten>>

\* alt_text = generate_alt_text(topic)
generate_alt_text ==
    /\ pc = "alt_text"
    /\ hist' = Step("alt_text")
    /\ \E ok \in BOOLEAN :
        /\ Allowed(ok)
        /\ faults' = Spend(ok)
        /\ IF ok THEN /\ loc' = [loc EXCEPT !.alt_text = "alt"]
                      /\ pc' = "call_get_image_for_topic"
                 ELSE Raise("alt text error")
    /\ UNCHANGED <<units, sheet, logs, wpPosts, settings, batch, cp, ten>>

\* ------------------------------------------------------ retry decorator
\* tenacity's wait_exponential(multiplier=1, min, max) after attempt n:
\* max(min, min(2 ** (n - 1), max)).
Max2(a, b) == IF a >= b THEN a ELSE b
Min2(a, b) == IF a <= b THEN a ELSE b
\* wait_exponential with the floor not applied.
wait_exponential_no_floor(lo, hi, n) == Min2(2 ^ (n - 1), hi)

wait_exponential(lo, hi, n) == Max2(lo, Min2(2 ^ (n - 1), hi))

WaitMin(op) == IF op = "get_image_for_topic" THEN ImageWaitMin ELSE WpWaitMin
WaitMax(op) == IF op = "get_image_for_topic" THEN ImageWaitMax ELSE WpWaitMax

\* stop_after_attempt(3): stop once the attempt number reaches the ceiling.
stop_after_attempt(n) == n >= MaxAttempts

CallPc(op) == CASE op = "get_image_for_topic" -> "call_get_image_for_topic"
                [] op = "upload_featured_image" -> "call_upload_featured_image"
                [] op = "create_post" -> "call_create_post"
BodyPc(op) == CASE op = "get_image_for_topic" -> "pexels"
                [] op = "upload_featured_image" -> "media"
                [] op = "create_post" -> "create_post_begin"
EndPc(op) == CASE op = "get_image_for_topic" -> "end_get_image_for_topic"
               [] op = "upload_featured_image" -> "end_upload_featured_image"
               [] op = "create_post" -> "end_create_post"
\* Where the caller continues when the wrapped call returns.
ReturnPc(op) == CASE op = "get_image_for_topic" -> "download"
                  [] op = "upload_featured_image" -> "categories"
                  [] op = "create_post" -> "check_post"

\* The wrapped body ends: normally (exc "") or by an exception it did not catch.
BodyEnds(op, exc) ==
    /\ ten' = [ten EXCEPT !.exc = exc]
    /\ pc' = EndPc(op)

\* The decorated function is called: attempt 1 of a fresh retry state.
tenacity_call(op) ==
    /\ pc = CallPc(op)
    /\ ten' = [ten EXCEPT !.attempts[op] = 1, !.sleeps[op] = <<>>, !.exc = ""]
    /\ hist' = IF op = "get_image_for_topic" THEN Step("acquire_image")
               ELSE IF op = "create_post" THEN Step("create_post")
               ELSE hist
    /\ cp' = IF op = "upload_featured_image" THEN cp ELSE CpInit
    /\ pc' = BodyPc(op)
    /\ UNCHANGED <<units, sheet, logs, wpPosts, settings, faults, batch, loc>>

\* The attempt returned a value (None included): the decorator returns it.
tenacity_return(op) ==
    /\ pc = EndPc(op)
    /\ ten.exc = ""
    /\ pc' = ReturnPc(op)
    /\ loc' = CASE op = "get_image_for_topic" -> [loc EXCEPT !.image_metadata = cp.image]
                [] op = "create_post" -> [loc EXCEPT !.post_result = cp.result]
                [] OTHER -> loc
    /\ cp' = IF op = "upload_featured_image"
             THEN [cp EXCEPT !.featured_media_id = cp.upload_ret]
             ELSE CpInit
    /\ UNCHANGED <<units, sheet, logs, wpPosts, settings, faults, batch, ten, hist>>

\* The attempt raised and the ceiling is not reached: sleep, then run the
\* wrapped function again from its first line.
tenacity_retry(op) ==
    /\ pc = EndPc(op)
    /\ ten.exc # ""
    /\ ~stop_after_attempt(ten.attempts[op])
    /\ ten' = [ten EXCEPT
                 !.sleeps[op] = Append(@, wait_exponential(WaitMin(op), WaitMax(op),
                                                           ten.attempts[op])),
                 !.attempts[op] = @ + 1,
                 !.exc = ""]
    /\ cp' = IF op = "upload_featured_image" THEN cp ELSE CpInit
    /\ pc' = BodyPc(op)
    /\ UNCHANGED <<units, sheet, logs, wpPosts, settings, faults, batch, loc, hist>>

\* What the decorator raises once the ceiling is reached: reraise is not set,
\* so tenacity raises RetryError, which wraps the last attempt.
Exhausted(exc) == "RetryError"

\* The attempt raised and the ceiling is reached.  RetryError is no
\* RequestException: out of upload_featured_image it leaves create_post too.
tenacity_give_up(op) ==
    /\ pc = EndPc(op)
    /\ ten.exc # ""
    /\ stop_after_attempt(ten.attempts[op])
    /\ IF op = "upload_featured_image"
       THEN /\ ten' = [ten EXCEPT !.exc = Exhausted(ten.exc), !.last = ten.exc]
            /\ pc' = EndPc("create_post")
            /\ loc' = loc
       ELSE /\ ten' = [ten EXCEPT !.last = ten.exc]
            /\ Raise(Exhausted(ten.exc))
    /\ UNCHANGED <<units, sheet, logs, wpPosts, settings, faults, batch, cp, hist>>

\* ---------------------------------------------------------- image handler
ProviderOutcomes == {"image", "empty", "error"}

\* What a provider helper returns: the except clause of _try_pexels,
\* _try_unsplash and _generate_dalle turns every error into None.
ProviderResult(tier, outcome) ==
    IF outcome = "image" THEN [source |-> tier, alt_text |-> ""] ELSE NoImage

\* AfterTier with the Unsplash fallback lost: Pexels falls through to DALL-E.
AfterTierSkipsUnsplash(tier, image) ==
    IF image # NoImage THEN "end_get_image_for_topic"
    ELSE IF tier = "pexels" THEN "dalle"
    ELSE IF tier = "unsplash" THEN "dalle"
    ELSE "end_get_image_for_topic"

\* get_image_for_topic after a tier returned `image`: `if image:` sets the alt
\* text and returns; otherwise the next tier is tried.
AfterTier(tier, image) ==
    IF image # NoImage THEN "end_get_image_for_topic"
    ELSE IF tier = "pexels" THEN "unsplash"
    ELSE IF tier = "unsplash" THEN "dalle"
    ELSE "end_get_image_for_topic"

TryTier(tier, outcome) ==
    LET image == ProviderResult(tier, outcome) IN
    /\ Allowed(outcome = "image")
    /\ faults' = Spend(outcome = "image")
    /\ hist' = [hist EXCEPT !.tiers = Append(@, [tier |-> tier, outcome |-> outcome])]
    /\ cp' = [cp EXCEPT !.image =
                 IF image # NoImage THEN [image EXCEPT !.alt_text = loc.alt_text]
                 ELSE NoImage]
    /\ pc' = AfterTier(tier, image)
    /\ ten' = [ten EXCEPT !.exc = ""]
    /\ UNCHANGED <<units, sheet, logs, wpPosts, settings, batch, loc>>

\* image = self._try_pexels(topic.topic)
_try_pexels ==
    /\ pc = "pexels"
    /\ \E outcome \in ProviderOutcomes : TryTier("pexels", outcome)

\* image = self._try_unsplash(topic.topic)
_try_unsplash ==
    /\ pc = "unsplash"
    /\ \E outcome \in ProviderOutcomes : TryTier("unsplash", outcome)

\* image = self._generate_dalle(topic, alt_text): an image or an error.
_generate_dalle ==
    /\ pc = "dalle"
    /\ \E outcome \in {"image", "error"} : TryTier("dalle", outcome)

\* download_and_prepare with a failed download raised to process_topic.
download_and_prepare_raises ==
    /\ pc = "download"
    /\ loc.image_metadata # NoImage
    /\ hist' = Step("download")
    /\ \E ok \in BOOLEAN :
        /\ Allowed(ok)
        /\ faults' = Spend(ok)
        /\ IF ok THEN /\ loc' = [loc EXCEPT !.image_data = TRUE]
                      /\ pc' = "test_connection"
                 ELSE Raise("download error")
    /\ UNCHANGED <<units, sheet, logs, wpPosts, settings, batch, cp, ten>>

\* `if image_metadata:` image_data = download_and_prepare(image_metadata);
\* a failed download is logged and gives None.
download_and_prepare ==
    /\ pc = "download"
    /\ loc.image_metadata # NoImage
    /\ \E ok \in BOOLEAN :
        /\ Allowed(ok)
        /\ faults' = Spend(ok)
        /\ loc' = [loc EXCEPT !.image_data = ok]
    /\ hist' = Step("download")
    /\ pc' = "test_connection"
    /\ UNCHANGED <<units, sheet, logs, wpPosts, settings, batch, cp, ten>>

\* No image: image_data stays None.
skip_download ==
    /\ pc = "download"
    /\ loc.image_metadata = NoImage
    /\ pc' = "test_connection"
    /\ UNCHANGED <<units, sheet, logs, wpPosts, settings, faults, batch, loc, cp, ten, hist>>

\* ------------------------------------------------------- wordpress client
\* The answer to GET /users/me: "ok" a 2xx answer with the user as JSON
\* object; "http_error" an error status (raise_for_status: HTTPError);
\* "transport_error" a ConnectionError or Timeout; "bad_body" a 2xx answer
\* whose body makes response.json() or user_data.get raise an exception that
\* is no RequestException.
ConnectionOutcomes == {"ok", "http_error", "transport_error", "bad_body"}

\* test_connection_result with only the HTTP error caught.
test_connection_result_http_only(outcome) ==
    CASE outcome = "ok" -> "True"
      [] outcome = "http_error" -> "False"
      [] OTHER -> "raise"

\* What test_connection() does: return True; return False from `except
\* requests.exceptions.RequestException`, which HTTPError, ConnectionError
\* and Timeout all are; let any other exception through.
test_connection_result(outcome) ==
    CASE outcome = "ok" -> "True"
      [] outcome \in {"http_error", "transport_error"} -> "False"
      [] OTHER -> "raise"

\* ConnectionRaises with the False of test_connection not checked.
ConnectionRaisesUnchecked(outcome) ==
    CASE test_connection_result(outcome) = "True" -> ""
      [] test_connection_result(outcome) = "False" -> ""
      [] OTHER -> "connection response error"

\* What process_topic does with the answer: "" to go on to create_post,
\* otherwise the text of the exception raised.
ConnectionRaises(outcome) ==
    CASE test_connection_result(outcome) = "True" -> ""
      [] test_connection_result(outcome) = "False" -> "WordPress connection failed"
      [] OTHER -> "connection response error"

\* `if not wp_client.test_connection(): raise Exception(...)`
test_connection ==
    /\ pc = "test_connection"
    /\ hist' = Step("test_connection")
    /\ \E outcome \in ConnectionOutcomes :
        /\ Allowed(outcome = "ok")
        /\ faults' = Spend(outcome = "ok")
        /\ IF ConnectionRaises(outcome) = ""
           THEN /\ pc' = "call_create_post"
                /\ loc' = [loc EXCEPT !.connected = outcome = "ok",
                                      !.answer = outcome]
           ELSE /\ loc' = [loc EXCEPT !.exc = ConnectionRaises(outcome),
                                      !.answer = outcome]
                /\ pc' = "except"
    /\ UNCHANGED <<units, sheet, logs, wpPosts, settings, batch, cp, ten>>

\* `if image_data and blog_post.image:` upload the featured image first.
\* WantsUpload with the test of image_data lost.
WantsUploadIgnoresData(image_data, image) == image # NoImage

WantsUpload(image_data, image) == image_data /\ image # NoImage

create_post_begin ==
    /\ pc = "create_post_begin"
    /\ pc' = IF WantsUpload(loc.image_data, loc.image_metadata)
             THEN "call_upload_featured_image"
             ELSE "categories"
    /\ UNCHANGED <<units, sheet, logs, wpPosts, settings, faults, batch, loc, cp, ten, hist>>

MediaOutcomes == {"ok", "no_id", "error"}

\* upload_featured_image: requests.post(.../media) and raise_for_status.
\* An error is caught by `except Exception` and gives None; a response
\* without an id gives None without the alt-text request.
upload_media ==
    /\ pc = "media"
    /\ \E outcome \in MediaOutcomes :
        /\ Allowed(outcome = "ok")
        /\ faults' = Spend(outcome = "ok")
        /\ IF outcome = "ok"
           THEN /\ cp' = [cp EXCEPT !.media_id = hist.mediaUploads + 1,
                                    !.stages = Append(@, "upload")]
                /\ pc' = "media_alt"
                /\ ten' = ten
           ELSE /\ cp' = [cp EXCEPT !.media_id = 0, !.upload_ret = 0,
                                    !.stages = Append(@, "upload")]
                /\ BodyEnds("upload_featured_image", "")
        /\ hist' = [hist EXCEPT !.mediaUploads = @ + 1,
                                !.uploaded = IF outcome = "ok" THEN @ + 1 ELSE @]
    /\ UNCHANGED <<units, sheet, logs, wpPosts, settings, batch, loc>>

AltPatchOutcomes == {"ok", "http_error", "transport_error"}

\* What upload_featured_image returns after the alt-text request: the request
\* has no raise_for_status, so an HTTP error status is ignored; a transport
\* error is an exception, caught by `except Exception`, and gives None.
UploadReturn(media_id, outcome) ==
    IF outcome = "transport_error" THEN 0 ELSE media_id

\* requests.post(.../media/{media_id}, json={"alt_text": ...})
upload_alt_text ==
    /\ pc = "media_alt"
    /\ \E outcome \in AltPatchOutcomes :
        /\ Allowed(outcome = "ok")
        /\ faults' = Spend(outcome = "ok")
        /\ cp' = [cp EXCEPT !.upload_ret = UploadReturn(cp.media_id, outcome)]
    /\ BodyEnds("upload_featured_image", "")
    /\ UNCHANGED <<units, sheet, logs, wpPosts, settings, batch, loc, hist>>

\* One label of _get_or_create_categories / _get_or_create_tags: the search
\* finds a term; or finds none and the create request gives one; or the search
\* or the create request fails, which is logged and skips the label.
LabelOutcomes == {"found", "created", "search_error", "create_error"}

RECURSIVE ResolveFrom(_, _, _)
ResolveFrom(names, outs, i) ==
    IF i > Len(names) THEN <<>>
    ELSE IF outs[i] \in {"found", "created"}
         THEN <<names[i]>> \o ResolveFrom(names, outs, i + 1)
    ELSE ResolveFrom(names, outs, i + 1)

\* The identifiers returned for `names`, outs[i] the outcome of label i.  The
\* identifier of a term is written as the label it was resolved for.
_get_or_create(names, outs) == ResolveFrom(names, outs, 1)

AllNominal(outs) == \A i \in DOMAIN outs : outs[i] = "found"

\* `if blog_post.categories:` category_ids = _get_or_create_categories(...)
create_post_categories ==
    /\ pc = "categories"
    /\ \E outs \in [1..Len(loc.categories) -> LabelOutcomes] :
        /\ Allowed(AllNominal(outs))
        /\ faults' = Spend(AllNominal(outs))
        /\ cp' = [cp EXCEPT !.category_ids = _get_or_create(loc.categories, outs),
                            !.stages = IF loc.categories # <<>>
                                       THEN Append(@, "categories") ELSE @]
    /\ pc' = "tags"
    /\ UNCHANGED <<units, sheet, logs, wpPosts, settings, batch, loc, ten, hist>>

\* `if blog_post.tags:` tag_ids = _get_or_create_tags(...)
create_post_tags ==
    /\ pc = "tags"
    /\ \E outs \in [1..Len(loc.tags) -> LabelOutcomes] :
        /\ Allowed(AllNominal(outs))
        /\ faults' = Spend(AllNominal(outs))
        /\ cp' = [cp EXCEPT !.tag_ids = _get_or_create(loc.tags, outs),
                            !.stages = IF loc.tags # <<>>
                                       THEN Append(@, "tags") ELSE @]
    /\ pc' = "post"
    /\ UNCHANGED <<units, sheet, logs, wpPosts, settings, batch, loc, ten, hist>>

\* requests.post(.../posts): "ok" a 2xx answer with the post as JSON object;
\* "request_error" a RequestException (transport error, HTTP error status);
\* "bad_body" a 2xx answer whose body makes response.json() or the
\* post_data.get(...).get(...) of the log line raise another exception.
PostOutcomes == {"ok", "request_error", "bad_body"}

\* The target accepted the request: it has created the post.
Accepted(outcome) == outcome \in {"ok", "bad_body"}

\* What ends the body of create_post after the post request: `except
\* requests.exceptions.RequestException` returns None; any other exception
\* leaves create_post and reaches the retry decorator.
PostRequestRaises(outcome) ==
    IF outcome = "bad_body" THEN "post response error" ELSE ""

create_post_request ==
    /\ pc = "post"
    /\ \E outcome \in PostOutcomes :
        LET new == [id |-> Len(wpPosts) + 1, link |-> "link"] IN
        /\ Allowed(outcome = "ok")
        /\ faults' = Spend(outcome = "ok")
        /\ wpPosts' = IF Accepted(outcome)
                      THEN Append(wpPosts, [id |-> new.id, row |-> loc.row])
                      ELSE wpPosts
        /\ hist' = [hist EXCEPT !.postRequests = @ + 1,
                                !.created = IF Accepted(outcome) THEN @ + 1 ELSE @]
        /\ cp' = [cp EXCEPT !.result = IF outcome = "ok" THEN new ELSE NoPost,
                            !.outcome = outcome,
                            !.featured_media = cp.featured_media_id,
                            !.stages = Append(@, "post")]
        /\ BodyEnds("create_post", PostRequestRaises(outcome))
    /\ UNCHANGED <<units, sheet, logs, settings, batch, loc>>

\* ------------------------------------------- process_topic, after publishing
\* `if not post_result: raise Exception("WordPress post creation failed")`,
\* then blog_post.wordpress_post_id / wordpress_url are set.
\* NotPost with the check of post_result lost.
NotPostUnchecked(post_result) == FALSE

\* `not post_result`: None (and an empty dict) is false.
NotPost(post_result) == post_result = NoPost

process_topic_check_post ==
    /\ pc = "check_post"
    /\ IF NotPost(loc.post_result)
       THEN Raise("WordPress post creation failed")
       ELSE /\ loc' = [loc EXCEPT !.wordpress_post_id = loc.post_result.id,
                                  !.wordpress_url = loc.post_result.link]
            /\ pc' = "mark_completed"
    /\ UNCHANGED <<units, sheet, logs, wpPosts, settings, faults, batch, cp, ten, hist>>

\* mark_topic_status(topic.row_number, "Completed", post_url)
process_topic_mark_completed ==
    /\ pc = "mark_completed"
    /\ \E outcome \in SheetOutcomes \cup {"partial"} :
        /\ Allowed(outcome = "ok")
        /\ faults' = Spend(outcome = "ok")
        /\ sheet' = mark_topic_status(sheet, loc.row, "Completed",
                                      loc.wordpress_url, outcome)
        /\ hist' = [Step("mark_completed") EXCEPT
                       !.statusCalls = Append(@, StatusCall("Completed", outcome))]
    /\ pc' = "log_success"
    /\ UNCHANGED <<units, logs, wpPosts, settings, batch, loc, cp, ten>>

PostLog(row, status, word_count, post_url, error_message) ==
    [row |-> row, status |-> status, word_count |-> word_count,
     post_url |-> post_url, error_message |-> error_message]

\* FailureLog that keeps the word count of the generated content.
FailureLogKeepsWordCount(row, exc) == PostLog(row, "Failed", loc.word_count, "", exc)

\* The PostLog of the except branch: post_url None, word_count 0 and
\* error_message str(e).
FailureLog(row, exc) == PostLog(row, "Failed", 0, "", exc)

\* The PostLog of the success path.
SuccessLog(row, word_count, post_url) == PostLog(row, "Success", word_count, post_url, "")

LogAndReturn(post_log, step, ret) ==
    /\ \E appendOk \in BOOLEAN :
        /\ settings.log_to_sheet \/ appendOk
        /\ Allowed(appendOk)
        /\ faults' = Spend(appendOk)
        /\ logs' = log_post_result(logs, post_log, appendOk)
        /\ hist' = [Step(step) EXCEPT !.logCalls =
                       Append(@, [log |-> post_log,
                                  appended |-> settings.log_to_sheet /\ appendOk])]
    /\ batch' = [batch EXCEPT !.logCalls = @ + 1,
                              !.trueReturns = IF ret = "True" THEN @ + 1 ELSE @]
    /\ loc' = [loc EXCEPT !.ret = ret]
    /\ pc' = "returned"
    /\ UNCHANGED <<units, sheet, wpPosts, settings, cp, ten>>

\* post_log = PostLog(status="Success", ...), built from fields validated
\* before and the link text of the post; log_post_result(post_log);
\* return True
process_topic_log_success ==
    /\ pc = "log_success"
    /\ LogAndReturn(SuccessLog(loc.row, loc.word_count, loc.wordpress_url),
                    "log_success", "True")

\* The except clause without its status write.
process_topic_except_silent ==
    /\ pc = "except"
    /\ pc' = "except_log"
    /\ UNCHANGED <<units, sheet, logs, wpPosts, settings, faults, batch, loc, cp, ten, hist>>

\* except Exception as e: mark_topic_status(topic.row_number, "Failed")
process_topic_except ==
    /\ pc = "except"
    /\ \E outcome \in SheetOutcomes :
        /\ Allowed(outcome = "ok")
        /\ faults' = Spend(outcome = "ok")
        /\ sheet' = mark_topic_status(sheet, loc.row, "Failed", "", outcome)
        /\ hist' = [hist EXCEPT
                       !.statusCalls = Append(@, StatusCall("Failed", outcome))]
    /\ pc' = "except_log"
    /\ UNCHANGED <<units, logs, wpPosts, settings, batch, loc, cp, ten>>

\* log_post_result(PostLog(status="Failed", word_count=0,
\* error_message=str(e))); return False
process_topic_except_log ==
    /\ pc = "except_log"
    /\ LogAndReturn(FailureLog(loc.row, loc.exc), "log_failure", "False")

\* ------------------------------------------------------------ specification
Next ==
    \/ process_batch
    \/ process_batch_return
    \/ process_batch_no_site
    \/ process_batch_call
    \/ process_batch_count
    \/ process_topic_mark_processing
    \/ generate_seo_metadata
    \/ generate_blog_content
    \/ generate_categories_and_tags
    \/ generate_alt_text
    \/ \E op \in WrappedOps : tenacity_call(op)
    \/ \E op \in WrappedOps : tenacity_return(op)
    \/ \E op \in WrappedOps : tenacity_retry(op)
    \/ \E op \in WrappedOps : tenacity_give_up(op)
    \/ _try_pexels
    \/ _try_unsplash
    \/ _generate_dalle
    \/ download_and_prepare
    \/ skip_download
    \/ test_connection
    \/ create_post_begin
    \/ upload_media
    \/ upload_alt_text
    \/ create_post_categories
    \/ create_post_tags
    \/ create_post_request
    \/ process_topic_check_post
    \/ process_topic_mark_completed
    \/ process_topic_log_success
    \/ process_topic_except
    \/ process_topic_except_log

\* One call of process_topic at most, under every behaviour of the environment.
Spec == Init /\ [][Next]_vars

\* A batch over up to NumRows rows, under at most MaxFaults faults.
BatchSpec == BatchInitState /\ [][Next]_vars

\* ------------------------------------------- taxonomy resolution, by request
\* Longest list of labels handed to _get_or_create_categories / _tags.
MaxLabels == 2

LabelNames == {"c1", "c2"}

RECURSIVE SeqsUpTo(_, _)
\* The sequences over S of length at most n.
SeqsUpTo(S, n) ==
    IF n = 0 THEN { <<>> }
    ELSE SeqsUpTo(S, n - 1)
         \cup { Append(q, x) : q \in { r \in SeqsUpTo(S, n - 1) : Len(r) = n - 1 },
                               x \in S }

\* The terms of the target before the call: the identifier of each name,
\* 0 for a name that has no term.
InitTerms == [LabelNames -> {0, 7}]

LabInit(kind, names, terms) ==
    [ kind |-> kind,           \* "categories" or "tags"
      names |-> names,         \* category_names / tag_names
      i |-> 1,                 \* the label the for loop is at
      phase |-> "search",      \* next request for this label; "done" on return
      ids |-> <<>>,            \* category_ids / tag_ids
      outs |-> <<>>,           \* how each label visited ended
      requests |-> <<>>,       \* requests sent: [label, request, answer]
      terms |-> terms ]

\* An identifier the target has not used.
NewTermId(terms, requests) == 8 + Len(requests)

SearchOutcomes == {"hit", "none", "error"}

\* The loop body after the search request, with an error answer treated like
\* an empty one.
AfterSearchCreatesOnError(outcome) ==
    CASE outcome = "hit" -> "next"
      [] outcome = "none" -> "create"
      [] outcome = "error" -> "create"

\* The loop body after the search request: `if categories:` takes the first
\* match; an empty answer goes on to the create request; an exception (the
\* request, response.json(), or indexing an error answer) is caught by
\* `except Exception`, logged, and `continue` goes to the next label.
AfterSearch(outcome) ==
    CASE outcome = "hit" -> "next"
      [] outcome = "none" -> "create"
      [] outcome = "error" -> "next"

Request(label, request, answer) ==
    [label |-> label, request |-> request, answer |-> answer]

\* requests.get(.../categories, params={"search": name})
label_search ==
    /\ lab.phase = "search"
    /\ lab.i <= Len(lab.names)
    /\ \E outcome \in SearchOutcomes, id \in 1..8 :
        LET name == lab.names[lab.i] IN
        /\ outcome = "hit" => \E n \in LabelNames : lab.terms[n] = id
        /\ outcome = "none" => lab.terms[name] = 0 /\ id = 1
        /\ outcome = "error" => id = 1
        /\ lab' = [lab EXCEPT
              !.requests = Append(@, Request(lab.i, "search",
                              CASE outcome = "hit" -> id
                                [] outcome = "none" -> 0
                                [] OTHER -> -1)),
              !.ids = IF outcome = "hit" THEN Append(@, id) ELSE @,
              !.outs = CASE outcome = "hit" -> Append(@, "found")
                         [] outcome = "error" -> Append(@, "search_error")
                         [] OTHER -> @,
              !.phase = IF AfterSearch(outcome) = "create" THEN "create" ELSE "search",
              !.i = IF AfterSearch(outcome) = "create" THEN @ ELSE @ + 1]
    /\ UNCHANGED <<sheet, logs, wpPosts, settings, faults, batch, pc, loc, cp, ten,
                   hist, pend, gen, runs, cli, find>>

\* requests.post(.../categories, json={"name": name})
label_create ==
    /\ lab.phase = "create"
    /\ \E ok \in BOOLEAN :
        LET name == lab.names[lab.i]
            id == NewTermId(lab.terms, lab.requests)
        IN  lab' = [lab EXCEPT
              !.requests = Append(@, Request(lab.i, "create", IF ok THEN id ELSE -1)),
              !.ids = IF ok THEN Append(@, id) ELSE @,
              !.outs = Append(@, IF ok THEN "created" ELSE "create_error"),
              !.terms = IF ok THEN [@ EXCEPT ![name] = id] ELSE @,
              !.phase = "search",
              !.i = @ + 1]
    /\ UNCHANGED <<sheet, logs, wpPosts, settings, faults, batch, pc, loc, cp, ten,
                   hist, pend, gen, runs, cli, find>>

\* `return category_ids`
label_return ==
    /\ lab.phase = "search"
    /\ lab.i > Len(lab.names)
    /\ lab' = [lab EXCEPT !.phase = "done"]
    /\ UNCHANGED <<sheet, logs, wpPosts, settings, faults, batch, pc, loc, cp, ten,
                   hist, pend, gen, runs, cli, find>>

LabelNext ==
    \/ label_search
    \/ label_create
    \/ label_return

\* The variables of Spec other than the sheet, at rest.
AgentAtRest ==
    /\ faults = -1
    /\ logs = <<>>
    /\ wpPosts = <<>>
    /\ settings = [log_to_sheet |-> TRUE]
    /\ batch = BatchInit
    /\ pc = "idle"
    /\ loc = LocInit
    /\ cp = CpInit
    /\ ten = TenInit
    /\ hist = HistInit

AtRest ==
    /\ sheet = <<>>
    /\ AgentAtRest

LabelInit ==
    /\ AtRest
    /\ lab \in { LabInit(kind, names, terms) :
                    kind \in {"categories", "tags"},
                    names \in SeqsUpTo(LabelNames, MaxLabels),
                    terms \in InitTerms }
    /\ pend = <<>>
    /\ gen = <<>>
    /\ runs = <<>>
    /\ cli = <<>>
    /\ find = <<>>

\* One call of _get_or_create_categories or _get_or_create_tags.
LabelSpec == LabelInit /\ [][LabelNext]_vars

\* --------------------------------------------- the Topics sheet, read by read
\* Status texts a row can hold when the sheet is read: what process_topic
\* writes, and what a person typed.
SheetStatuses ==
    { "", "Pending", "pending", "COMPLETED", " completed ", "Processing",
      "failed ", "Done" }

ReadLimits == {NoLimit, Limit(-1), Limit(0), Limit(1), Limit(2)}

\* The statuses process_topic writes.
WrittenStatuses == {"Processing", "Completed", "Failed"}

PendInit ==
    [ done |-> FALSE,          \* a read has returned
      limit |-> NoLimit, readOk |-> TRUE,
      rows |-> <<>>,           \* the data rows the read saw
      topics |-> <<>>,         \* what the read returned
      marked |-> {},           \* rows whose Status cell process_topic has written
      markedAtRead |-> {} ]    \* `marked` when the last read was made

TopicRows(topics) == { topics[k].row_number : k \in 1..Len(topics) }

\* topics = self.sheets_client.get_pending_topics(limit)
sheet_read ==
    /\ \E limit \in ReadLimits, readOk \in BOOLEAN :
        pend' = [pend EXCEPT !.done = TRUE, !.limit = limit, !.readOk = readOk,
                             !.rows = sheet,
                             !.topics = get_pending_topics(sheet, limit, readOk),
                             !.markedAtRead = pend.marked]
    /\ UNCHANGED <<sheet, logs, wpPosts, settings, faults, batch, pc, loc, cp, ten,
                   hist, lab, gen, runs, cli, find>>

\* process_topic on a topic of the last read writes Processing, Completed or
\* Failed to the topic's row.
sheet_mark ==
    /\ pend.done
    /\ \E row \in TopicRows(pend.topics), status \in WrittenStatuses,
          outcome \in {"ok", "fail", "partial"} :
        /\ sheet' = mark_topic_status(sheet, row, status,
                                      IF status = "Completed" THEN "link" ELSE "",
                                      outcome)
        /\ pend' = [pend EXCEPT !.marked = IF outcome = "fail" THEN @
                                           ELSE @ \cup {row}]
    /\ UNCHANGED <<logs, wpPosts, settings, faults, batch, pc, loc, cp, ten,
                   hist, lab, gen, runs, cli, find>>

SheetNext ==
    \/ sheet_read
    \/ sheet_mark

SheetInit ==
    /\ AgentAtRest
    /\ sheet \in UNION { [1..n -> [domain : {<<"a">>}, status : SheetStatuses,
                                   url : {""}]] : n \in 1..NumRows }
    /\ pend = PendInit
    /\ lab = <<>>
    /\ gen = <<>>
    /\ runs = <<>>
    /\ cli = <<>>
    /\ find = <<>>

\* Reads of the Topics sheet, and the status writes of process_topic between.
SheetSpec == SheetInit /\ [][SheetNext]_vars

\* ------------------------------------- content generator, after the API call
\* Longest generated HTML, in units (a character of text or a whole tag).
MaxHtml == 3
\* Longest text the model answers the alt-text prompt with.
MaxAltRaw == 127
\* alt_text[:125]
AltMax == 125

\* The anchors the generated HTML can hold, and the href of each.
Anchors == {"L1", "L2", "L3", "L4", "L5"}

Href(unit) ==
    CASE unit = "L1" -> <<"e", "/", "a">>
      [] unit = "L2" -> <<"e", "/", "a", "b">>
      [] unit = "L3" -> <<"e", "/", "c">>
      [] unit = "L4" -> <<"w", "/", "x">>
      [] unit = "L5" -> <<"w", "/", "y">>

\* The units of the generated HTML: a letter, a blank, the tag <b>, a tag
\* with a `>` inside a quoted attribute value (<b t=">a">), and the anchors.
HtmlUnits == {"a", " ", "B", "Q"} \cup Anchors

\* The characters of a unit, as the regular expressions see them.
UnitChars(unit) ==
    CASE unit = "B" -> <<"<", "b", ">">>
      [] unit = "Q" -> <<"<", "b", ">", "a", ">">>
      [] unit \in Anchors -> <<"<", "h", ">">>
      [] OTHER -> <<unit>>

RECURSIVE Flatten(_)
Flatten(html) ==
    IF html = <<>> THEN <<>> ELSE UnitChars(Head(html)) \o Flatten(Tail(html))

\* <p>Hello <b>world</b></p>
ExampleHtml == <<"B", "a", "a", " ", "B", "a", "a", "B", "B">>

\* The first `>` of s after position i, 0 if there is none.
NextClose(s, i) ==
    IF \E j \in (i + 1)..Len(s) : s[j] = ">"
    THEN CHOOSE j \in (i + 1)..Len(s) :
            s[j] = ">" /\ \A k \in (i + 1)..(j - 1) : s[k] # ">"
    ELSE 0

RECURSIVE StripFrom(_, _)
\* re.sub(r'<[^>]+>', '', s) from position i on: a `<`, at least one
\* character that is not `>`, and the first `>` after them are removed.
StripFrom(s, i) ==
    IF i > Len(s) THEN <<>>
    ELSE IF s[i] = "<" /\ NextClose(s, i) >= i + 2
         THEN StripFrom(s, NextClose(s, i) + 1)
    ELSE <<s[i]>> \o StripFrom(s, i + 1)

StripTags(s) == StripFrom(s, 1)

\* \w
WordChar(c) == c \in {"a", "b", "h"}

\* len(re.findall(r'\w+', s)): the maximal runs of word characters.
CountTokens(s) ==
    Cardinality({ i \in 1..Len(s) :
                    WordChar(s[i]) /\ (i = 1 \/ ~WordChar(s[i - 1])) })

\* word_count = len(re.findall(r'\w+', re.sub(r'<[^>]+>', '', html_content)))
WordCount(html) == CountTokens(StripTags(Flatten(html)))

\* re.findall(r'<a\s+href=["\'](.*?)["\']', html_content), in document order.
FindHrefs(html) ==
    LET as == SelectSeq(html, LAMBDA u : u \in Anchors)
    IN  [k \in 1..Len(as) |-> Href(as[k])]

\* any(internal in link for internal in topic.internal_links)
IsInternal(link, topic) ==
    \E k \in 1..Len(topic.internal_links) : Contains(topic.internal_links[k], link)

\* The outbound test with the test of the site's domain lost.
IsOutboundAnyDomain(link, topic) == ~IsInternal(link, topic)

\* elif not any(domain in link for domain in [topic.site_domain])
IsOutbound(link, topic) ==
    ~IsInternal(link, topic) /\ ~Contains(topic.site_domain, link)

NoLink == <<>>

RECURSIVE ClassifyFrom(_, _, _, _, _)
\* The `for link in ...` loop from link i on.
ClassifyFrom(links, topic, i, used, outbound) ==
    IF i > Len(links) THEN [internal_links_used |-> used, outbound_link |-> outbound]
    ELSE IF IsInternal(links[i], topic)
         THEN ClassifyFrom(links, topic, i + 1, Append(used, links[i]), outbound)
    ELSE IF IsOutbound(links[i], topic)
         THEN ClassifyFrom(links, topic, i + 1, used, links[i])
    ELSE ClassifyFrom(links, topic, i + 1, used, outbound)

\* What a topic of the sheet gives the link loop.
GenTopics ==
    { [internal_links |-> <<>>, site_domain |-> <<"e">>],
      [internal_links |-> << <<"e", "/", "a">> >>, site_domain |-> <<"e">>] }

ContentInputs ==
    { [fn |-> "content", topic |-> t, html |-> h, done |-> FALSE] :
        t \in GenTopics, h \in SeqsUpTo(HtmlUnits, MaxHtml) \cup {ExampleHtml} }

\* generate_blog_content from `html_content = ...` to the return.
extract_metadata ==
    /\ gen.fn = "content"
    /\ ~gen.done
    /\ LET links == ClassifyFrom(FindHrefs(gen.html), gen.topic, 1, <<>>, NoLink)
       IN  gen' = [fn |-> "content", topic |-> gen.topic, html |-> gen.html,
                   done |-> TRUE,
                   word_count |-> WordCount(gen.html),
                   internal_links_used |-> links.internal_links_used,
                   outbound_link |-> links.outbound_link]
    /\ UNCHANGED <<sheet, logs, wpPosts, settings, faults, batch, pc, loc, cp, ten,
                   hist, lab, pend, runs, cli, find>>

\* The answer to the alt-text prompt: n characters of text, bare, in double
\* quotes, or in quotes with blanks around them.
AltWraps == {"bare", "quoted", "padded"}

AltRaw(n, wrap) ==
    LET body == [i \in 1..n |-> IF i % 2 = 1 THEN "x" ELSE "y"] IN
    CASE wrap = "bare" -> body
      [] wrap = "quoted" -> <<"\"">> \o body \o <<"\"">>
      [] wrap = "padded" -> <<" ", "\"">> \o body \o <<"\"", " ">>

RECURSIVE StripChars(_, _)
\* str.strip(chars): the leading and the trailing characters of `chars` go.
StripChars(s, chars) ==
    IF s = <<>> THEN s
    ELSE IF Head(s) \in chars THEN StripChars(Tail(s), chars)
    ELSE IF s[Len(s)] \in chars THEN StripChars(SubSeq(s, 1, Len(s) - 1), chars)
    ELSE s

\* Truncate that returns the text whole.
TruncateNot(text) == text

\* alt_text[:125]
Truncate(text) == SubSeq(text, 1, IF Len(text) < AltMax THEN Len(text) ELSE AltMax)

AltInputs ==
    { [fn |-> "alt", stage |-> "prompt", raw |-> AltRaw(n, wrap)] :
        n \in 0..MaxAltRaw, wrap \in AltWraps }

\* generate_alt_text from `alt_text = ...` to the return.
generate_alt_text_return ==
    /\ gen.fn = "alt"
    /\ gen.stage = "prompt"
    /\ gen' = [fn |-> "alt", stage |-> "generated", raw |-> gen.raw,
               alt_text |-> Truncate(StripChars(StripChars(gen.raw, {" "}),
                                                {"\"", "'"}))]
    /\ UNCHANGED <<sheet, logs, wpPosts, settings, faults, batch, pc, loc, cp, ten,
                   hist, lab, pend, runs, cli, find>>

\* get_image_for_topic(topic, alt_text) when `tier` yields the image:
\* `image.alt_text = alt_text` for Pexels and Unsplash, alt_text=alt_text in
\* the ImageMetadata of _generate_dalle.
image_with_alt ==
    /\ gen.fn = "alt"
    /\ gen.stage = "generated"
    /\ \E tier \in {"pexels", "unsplash", "dalle"} :
        gen' = [fn |-> "alt", stage |-> "image", raw |-> gen.raw,
                alt_text |-> gen.alt_text,
                image |-> [ProviderResult(tier, "image") EXCEPT
                              !.alt_text = gen.alt_text]]
    /\ UNCHANGED <<sheet, logs, wpPosts, settings, faults, batch, pc, loc, cp, ten,
                   hist, lab, pend, runs, cli, find>>

\* upload_featured_image: alt_text_payload = {"alt_text": image_metadata.alt_text}
alt_text_payload ==
    /\ gen.fn = "alt"
    /\ gen.stage = "image"
    /\ gen' = [fn |-> "alt", stage |-> "uploaded", raw |-> gen.raw,
               alt_text |-> gen.alt_text, image |-> gen.image,
               payload |-> gen.image.alt_text]
    /\ UNCHANGED <<sheet, logs, wpPosts, settings, faults, batch, pc, loc, cp, ten,
                   hist, lab, pend, runs, cli, find>>

GenNext ==
    \/ extract_metadata
    \/ generate_alt_text_return
    \/ image_with_alt
    \/ alt_text_payload

GenInit ==
    /\ AtRest
    /\ gen \in ContentInputs \cup AltInputs
    /\ lab = <<>>
    /\ pend = <<>>
    /\ runs = <<>>
    /\ cli = <<>>
    /\ find = <<>>

\* One call of generate_blog_content, or one alt text from generate_alt_text
\* to the publishing target.
GenSpec == GenInit /\ [][GenNext]_vars

\* ------------------------------------------------------------ the scheduler
\* Jobs the scheduler holds: setup_scheduler adds one per posting hour, each
\* with its own id, and the scheduler's thread pool runs each in a thread of
\* its own when its trigger fires, whatever the other jobs are doing.
NumJobs == 2

Jobs == 1..NumJobs

\* Limit with no limit in place of the scheduler's 1.
SchedLimitNone == NoLimit

\* args=[1]: run_batch_job(1), a batch of one topic.
SchedLimit == Limit(1)

RunInit ==
    [ pc |-> "waiting",        \* position of the job's thread
      topics |-> <<>>,         \* what its get_pending_topics returned
      after |-> {},            \* the jobs whose run had ended when it read
      posted |-> 0 ]           \* id of the post it created, 0 for none

RunRow(j) == runs[j].topics[1].row_number

\* The trigger of job j fires: run_batch_job(1) starts in a pool thread.
job_start(j) ==
    /\ runs[j].pc = "waiting"
    /\ runs' = [runs EXCEPT ![j].pc = "read"]
    /\ UNCHANGED <<sheet, logs, wpPosts, settings, faults, batch, pc, loc, cp, ten,
                   hist, lab, pend, gen, cli, find>>

\* process_batch: topics = get_pending_topics(limit); no topics, return.
job_read(j) ==
    /\ runs[j].pc = "read"
    /\ LET topics == get_pending_topics(sheet, SchedLimit, TRUE) IN
       runs' = [runs EXCEPT ![j].topics = topics,
                            ![j].after = { i \in Jobs : runs[i].pc = "done" },
                            ![j].pc = IF topics = <<>> THEN "done" ELSE "mark"]
    /\ UNCHANGED <<sheet, logs, wpPosts, settings, faults, batch, pc, loc, cp, ten,
                   hist, lab, pend, gen, cli, find>>

\* process_topic: mark_topic_status(row, "Processing"), which may fail.
job_mark_processing(j) ==
    /\ runs[j].pc = "mark"
    /\ \E outcome \in SheetOutcomes :
        sheet' = mark_topic_status(sheet, RunRow(j), "Processing", "", outcome)
    /\ runs' = [runs EXCEPT ![j].pc = "publish"]
    /\ UNCHANGED <<logs, wpPosts, settings, faults, batch, pc, loc, cp, ten,
                   hist, lab, pend, gen, cli, find>>

\* process_topic from the SEO metadata to create_post: a post, or an exception.
job_publish(j) ==
    /\ runs[j].pc = "publish"
    /\ \E ok \in BOOLEAN :
        /\ wpPosts' = IF ok THEN Append(wpPosts, [id |-> Len(wpPosts) + 1,
                                                  row |-> RunRow(j)])
                      ELSE wpPosts
        /\ runs' = [runs EXCEPT ![j].posted = IF ok THEN Len(wpPosts) + 1 ELSE 0,
                                ![j].pc = "finish"]
    /\ UNCHANGED <<sheet, logs, settings, faults, batch, pc, loc, cp, ten,
                   hist, lab, pend, gen, cli, find>>

\* process_topic: mark_topic_status(row, "Completed", url), or "Failed" in the
\* except clause, either of which may fail; process_batch returns.
job_finish(j) ==
    /\ runs[j].pc = "finish"
    /\ \E outcome \in SheetOutcomes :
        sheet' = IF runs[j].posted # 0
                 THEN mark_topic_status(sheet, RunRow(j), "Completed", "link", outcome)
                 ELSE mark_topic_status(sheet, RunRow(j), "Failed", "", outcome)
    /\ runs' = [runs EXCEPT ![j].pc = "done"]
    /\ UNCHANGED <<logs, wpPosts, settings, faults, batch, pc, loc, cp, ten,
                   hist, lab, pend, gen, cli, find>>

SchedNext ==
    \/ \E j \in Jobs : job_start(j)
    \/ \E j \in Jobs : job_read(j)
    \/ \E j \in Jobs : job_mark_processing(j)
    \/ \E j \in Jobs : job_publish(j)
    \/ \E j \in Jobs : job_finish(j)

SchedInit ==
    /\ AgentAtRest
    /\ sheet \in UNION { [1..n -> [domain : {<<"a">>}, status : InitStatuses,
                                   url : {""}]] : n \in 1..NumRows }
    /\ runs = [j \in Jobs |-> RunInit]
    /\ lab = <<>>
    /\ pend = <<>>
    /\ gen = <<>>
    /\ cli = <<>>
    /\ find = <<>>

\* The scheduler's jobs, one run of each, in threads of their own.
SchedSpec == SchedInit /\ [][SchedNext]_vars

\* ------------------------------------------------- main and notifications
\* The command line after parse_args: the four store_true flags, and --batch
\* as the limit it gives (None when the flag is absent).
CliArgs ==
    [ demo : BOOLEAN, batch : {NoLimit, Limit(0), Limit(1)}, schedule : BOOLEAN,
      test_connections : BOOLEAN, create_template : BOOLEAN ]

\* The notification settings: whether each Optional[str] holds a text.
NotifySettings ==
    [ telegram_bot_token : BOOLEAN, telegram_chat_id : BOOLEAN,
      slack_webhook_url : BOOLEAN ]

\* The chain of main with every `elif` read as `if`.
DispatchEvery(args) ==
    (IF args.demo THEN <<"demo">> ELSE <<>>)
    \o (IF ~args.batch.none THEN <<"batch">> ELSE <<>>)
    \o (IF args.schedule THEN <<"schedule">> ELSE <<>>)
    \o (IF args.test_connections THEN <<"test_connections">> ELSE <<>>)
    \o (IF args.create_template THEN <<"create_template">> ELSE <<>>)

\* The if / elif chain of main: the functions it calls, in order.  The else
\* branch prints the help and calls none.
Dispatch(args) ==
    IF args.demo THEN <<"demo">>
    ELSE IF ~args.batch.none THEN <<"batch">>
    ELSE IF args.schedule THEN <<"schedule">>
    ELSE IF args.test_connections THEN <<"test_connections">>
    ELSE IF args.create_template THEN <<"create_template">>
    ELSE <<>>

\* What is called: main, or a method of NotificationService by itself.
Entries == {"main", "send_success", "send_failure"}

CliInit(entry, args, env) ==
    [ entry |-> entry, args |-> args, env |-> env,
      pc |-> IF entry = "main" THEN "start" ELSE "_send",
      modes |-> <<>>,          \* the mode functions main has called, in order
      returned |-> FALSE,      \* process_batch has returned its stats
      message |-> IF entry = "main" THEN "" ELSE entry,
      requests |-> <<>>,       \* notification requests sent: [sink, outcome]
      raised |-> "" ]          \* the exception that left the entry, if any

\* main from `if args.demo:` on.  run_demo, setup_scheduler, test_connections
\* and create_template_sheet are not followed further.
main_dispatch ==
    /\ cli.pc = "start"
    /\ cli' = [cli EXCEPT
                 !.modes = Dispatch(cli.args),
                 !.pc = IF \E k \in 1..Len(Dispatch(cli.args)) :
                              Dispatch(cli.args)[k] = "batch"
                        THEN "run_batch_job" ELSE "exit"]
    /\ UNCHANGED <<sheet, logs, wpPosts, settings, faults, batch, pc, loc, cp, ten,
                   hist, lab, pend, gen, runs, find>>

\* run_batch_job: agent = BlogAgent(), whose SheetsClient raises when it
\* cannot authenticate; `except Exception` logs and raises again.
run_batch_job_agent ==
    /\ cli.pc = "run_batch_job"
    /\ \E ok \in BOOLEAN :
        cli' = IF ok THEN [cli EXCEPT !.pc = "process_batch"]
               ELSE [cli EXCEPT !.pc = "exit", !.raised = "Batch job failed"]
    /\ UNCHANGED <<sheet, logs, wpPosts, settings, faults, batch, pc, loc, cp, ten,
                   hist, lab, pend, gen, runs, find>>

\* stats = agent.process_batch(limit=limit), or an exception out of it;
\* then notifier.send_batch_summary(stats) builds its message.
run_batch_job_batch ==
    /\ cli.pc = "process_batch"
    /\ \E ok \in BOOLEAN :
        cli' = IF ok THEN [cli EXCEPT !.pc = "_send", !.returned = TRUE,
                                      !.message = "send_batch_summary"]
               ELSE [cli EXCEPT !.pc = "exit", !.raised = "Batch job failed"]
    /\ UNCHANGED <<sheet, logs, wpPosts, settings, faults, batch, pc, loc, cp, ten,
                   hist, lab, pend, gen, runs, find>>

\* `if self.settings.telegram_bot_token and self.settings.telegram_chat_id:`
TelegramConfigured(env) == env.telegram_bot_token /\ env.telegram_chat_id

\* `if self.settings.slack_webhook_url:`
SlackConfigured(env) == env.slack_webhook_url

\* requests.post and raise_for_status of a notification request.
NotifyOutcomes == {"ok", "http_error", "transport_error"}

\* _send that gives up after a Telegram request that failed.
AfterTelegramStopsOnError(outcome) == IF outcome = "ok" THEN "slack" ELSE "sent"

\* Where _send goes on after _send_telegram: its `except Exception` logs a
\* warning and returns, so the Slack test comes next whatever the outcome.
AfterTelegram(outcome) == "slack"

\* _send: the Telegram test, and _send_telegram when it holds.
_send_telegram ==
    /\ cli.pc = "_send"
    /\ IF TelegramConfigured(cli.env)
       THEN \E outcome \in NotifyOutcomes :
               cli' = [cli EXCEPT
                         !.requests = Append(@, [sink |-> "telegram",
                                                 outcome |-> outcome]),
                         !.pc = AfterTelegram(outcome)]
       ELSE cli' = [cli EXCEPT !.pc = "slack"]
    /\ UNCHANGED <<sheet, logs, wpPosts, settings, faults, batch, pc, loc, cp, ten,
                   hist, lab, pend, gen, runs, find>>

\* _send: the Slack test, and _send_slack when it holds.
_send_slack ==
    /\ cli.pc = "slack"
    /\ IF SlackConfigured(cli.env)
       THEN \E outcome \in NotifyOutcomes :
               cli' = [cli EXCEPT
                         !.requests = Append(@, [sink |-> "slack",
                                                 outcome |-> outcome]),
                         !.pc = "sent"]
       ELSE cli' = [cli EXCEPT !.pc = "sent"]
    /\ UNCHANGED <<sheet, logs, wpPosts, settings, faults, batch, pc, loc, cp, ten,
                   hist, lab, pend, gen, runs, find>>

\* The notification method returns; run_batch_job logs the stats and returns.
send_return ==
    /\ cli.pc = "sent"
    /\ cli' = [cli EXCEPT !.pc = "exit"]
    /\ UNCHANGED <<sheet, logs, wpPosts, settings, faults, batch, pc, loc, cp, ten,
                   hist, lab, pend, gen, runs, find>>

MainNext ==
    \/ main_dispatch
    \/ run_batch_job_agent
    \/ run_batch_job_batch
    \/ _send_telegram
    \/ _send_slack
    \/ send_return

MainInit ==
    /\ AtRest
    /\ cli \in { CliInit("main", args, env) : args \in CliArgs, env \in NotifySettings }
          \cup { CliInit(entry, [demo |-> FALSE, batch |-> NoLimit,
                                 schedule |-> FALSE, test_connections |-> FALSE,
                                 create_template |-> FALSE], env) :
                    entry \in Entries \ {"main"}, env \in NotifySettings }
    /\ lab = <<>>
    /\ pend = <<>>
    /\ gen = <<>>
    /\ runs = <<>>
    /\ find = <<>>

\* One invocation of main, or one call of send_success / send_failure.
MainSpec == MainInit /\ [][MainNext]_vars

\* ------------------------------------------------- the site of a topic
\* Longest Site Domain cell.
MaxDomain == 3

\* The characters a Site Domain cell can hold.
DomainChars == {"a", "A", "b", "w", ".", "z"}

\* What the row of the sheet holds under "Site Domain": a text, the empty
\* text included.
DomainCells == SeqsUpTo(DomainChars, MaxDomain)

FindInit(cell) ==
    [ cell |-> cell,
      stage |-> "row",         \* "row", "topic" (BlogTopic built), "found"
      site_domain |-> <<>>,    \* topic.site_domain
      site |-> NoSite ]        \* what _find_site_for_domain returned

\* BlogTopic.from_sheet_row: site_domain=row.get("Site Domain", ""), the cell
\* as it is.
from_sheet_row ==
    /\ find.stage = "row"
    /\ find' = [find EXCEPT !.stage = "topic", !.site_domain = find.cell]
    /\ UNCHANGED <<sheet, logs, wpPosts, settings, faults, batch, pc, loc, cp, ten,
                   hist, lab, pend, gen, runs, cli>>

\* process_batch: site = self._find_site_for_domain(topic.site_domain)
find_site ==
    /\ find.stage = "topic"
    /\ find' = [find EXCEPT !.stage = "found",
                            !.site = _find_site_for_domain(find.site_domain)]
    /\ UNCHANGED <<sheet, logs, wpPosts, settings, faults, batch, pc, loc, cp, ten,
                   hist, lab, pend, gen, runs, cli>>

SiteNext ==
    \/ from_sheet_row
    \/ find_site

SiteInit ==
    /\ AtRest
    /\ find \in { FindInit(cell) : cell \in DomainCells }
    /\ lab = <<>>
    /\ pend = <<>>
    /\ gen = <<>>
    /\ runs = <<>>
    /\ cli = <<>>

\* One row of the sheet, from its Site Domain cell to the site it is sent to.
SiteSpec == SiteInit /\ [][SiteNext]_vars

\* ------------------------------------------------------------------ claims
TierNames == [i \in 1..Len(hist.tiers) |-> hist.tiers[i].tier]
TierCalls(tier) == Cardinality({i \in 1..Len(hist.tiers) : hist.tiers[i].tier = tier})
Yielded(i) == hist.tiers[i].outcome = "image"

\* get_image_for_topic has returned to process_topic.
ImageReturned == pc = "download"

\* C1: in every call of get_image_for_topic the providers are tried in the
\* order Pexels, Unsplash, DALL-E and the call stops at the first that yields
\* an image; the image returned carries the tag of the provider that yielded
\* it and the caller's alt text; None is returned only when all three tiers
\* yielded nothing; the call never raises; no tier is called more than 3 times.
C1_Waterfall ==
    /\ Len(hist.tiers) <= 3
    /\ \A i \in 1..Len(hist.tiers) :
        /\ TierNames[i] = (<<"pexels", "unsplash", "dalle">>)[i]
        /\ Yielded(i) => i = Len(hist.tiers)
    /\ \A tier \in {"pexels", "unsplash", "dalle"} : TierCalls(tier) <= MaxAttempts
    /\ pc = "end_get_image_for_topic" => ten.exc = ""
    /\ ten.attempts["get_image_for_topic"] <= 1
    /\ ImageReturned =>
        /\ hist.tiers # <<>>
        /\ IF loc.image_metadata # NoImage
           THEN /\ Yielded(Len(hist.tiers))
                /\ loc.image_metadata.source = TierNames[Len(hist.tiers)]
                /\ loc.image_metadata.alt_text = loc.alt_text
           ELSE /\ Len(hist.tiers) = 3
                /\ \A i \in 1..3 : ~Yielded(i)

\* The waterfall reached DALL-E after both stock providers yielded nothing,
\* and DALL-E's image was returned.
C1_Witness ==
    /\ ImageReturned
    /\ loc.image_metadata.source = "dalle"
    /\ TierNames = <<"pexels", "unsplash", "dalle">>

\* C2 (as claimed): a stock-photo provider whose request failed with an error
\* is attempted 3 times before the waterfall moves on to the next tier.
C2_ProviderRetried ==
    \A i \in 1..Len(hist.tiers) :
        (i > 1 /\ hist.tiers[i].tier # hist.tiers[i - 1].tier
               /\ hist.tiers[i - 1].outcome = "error")
        => TierCalls(hist.tiers[i - 1].tier) = MaxAttempts

\* C3 (as claimed): process_topic marks the task Failed for a failed
\* post-creation request only after the request was sent 3 times.
C3_PostFailureRetried ==
    (/\ loc.exc = "WordPress post creation failed"
     /\ \E i \in 1..Len(hist.statusCalls) : hist.statusCalls[i].status = "Failed")
    => hist.postRequests = MaxAttempts

Sleeps(op) == ten.sleeps[op]

\* C4: a wrapped operation is never attempted a 4th time; between two
\* consecutive attempts there is exactly one sleep, each sleep lies between the
\* decorator's floor and cap and no sleep is shorter than the one before it;
\* when attempts 1 and 2 raised and attempt 3 returned, the caller holds the
\* value of attempt 3 (for create_post: the post of the 3rd post request).
C4_ThirdAttempt ==
    /\ \A op \in WrappedOps :
        /\ ten.attempts[op] <= MaxAttempts
        /\ ten.attempts[op] > 0 => Len(Sleeps(op)) = ten.attempts[op] - 1
        /\ \A i \in 1..Len(Sleeps(op)) :
            /\ WaitMin(op) <= Sleeps(op)[i]
            /\ Sleeps(op)[i] <= WaitMax(op)
            /\ i > 1 => Sleeps(op)[i] >= Sleeps(op)[i - 1]
    /\ (pc = "end_create_post" /\ ten.exc = "" /\ ten.attempts["create_post"] = 3)
        => /\ Len(Sleeps("create_post")) = 2
           /\ hist.postRequests = 3
           /\ cp.outcome = "ok" => cp.result.id = wpPosts[Len(wpPosts)].id
    /\ (pc = "check_post" /\ ten.attempts["create_post"] = 3
                          /\ hist.postRequests = hist.created)
        => /\ loc.post_result = [id |-> wpPosts[Len(wpPosts)].id, link |-> "link"]
           /\ Len(Sleeps("create_post")) = 2

\* create_post raised twice, returned the post on its 3rd attempt, and
\* process_topic holds that post.
C4_Witness ==
    /\ pc = "check_post"
    /\ ten.attempts["create_post"] = 3
    /\ loc.post_result # NoPost
    /\ Sleeps("create_post") = <<2, 2>>

\* C5 (as claimed): when a wrapped operation raised on each of its 3 attempts,
\* the exception process_topic catches is the exception of the last attempt,
\* and the failure log row carries its text.
C5_LastFailureSurfaced ==
    (ten.last # "" /\ pc = "returned")
    => /\ loc.exc = ten.last
       /\ hist.logCalls[1].log.error_message = ten.last

StepOrder ==
    << "mark_processing", "seo", "content", "taxonomy", "alt_text",
       "acquire_image", "download", "test_connection", "create_post",
       "mark_completed", "log_success" >>

StepIndex(name) == CHOOSE i \in 1..Len(StepOrder) : StepOrder[i] = name

IsProperStep(name) == name # "log_failure"
\* The steps of the try block that were started, in order.
ProperSteps == SelectSeq(hist.steps, IsProperStep)

\* The step in which the exception with this text is raised.
RaisedAt(exc) ==
    CASE exc = "seo metadata error" -> "seo"
      [] exc = "content error" -> "content"
      [] exc = "taxonomy error" -> "taxonomy"
      [] exc = "alt text error" -> "alt_text"
      [] exc \in {"WordPress connection failed", "connection response error"}
            -> "test_connection"
      [] OTHER -> "create_post"

HandlerPcs == {"except", "except_log", "returned", "batch_loop", "batch_return"}

HasStatusCall(status) ==
    \E i \in 1..Len(hist.statusCalls) : hist.statusCalls[i].status = status

RowIndex == loc.row - FirstRow + 1

HasSite(topic) == _find_site_for_domain(topic.site_domain) # NoSite

CreatePostPcs ==
    { "call_create_post", "create_post_begin", "call_upload_featured_image",
      "media", "media_alt", "end_upload_featured_image", "categories", "tags",
      "post", "end_create_post" }

\* C7: the steps of process_topic start in the order mark Processing, SEO
\* metadata, content, categories/tags, alt text, acquire image, download,
\* connection test, create post, mark Completed, success log; a step starts
\* only when every earlier step (the download apart, which needs an image) has
\* run and none has raised; create_post sends nothing unless test_connection
\* returned true; Completed is written only after create_post returned a post.
C7_StepOrder ==
    /\ \A i \in 1..Len(ProperSteps) :
        /\ i > 1 => StepIndex(ProperSteps[i]) > StepIndex(ProperSteps[i - 1])
        /\ \A j \in 1..(StepIndex(ProperSteps[i]) - 1) :
              StepOrder[j] # "download" => \E k \in 1..(i - 1) : ProperSteps[k] = StepOrder[j]
        /\ ProperSteps[i] = "download" => loc.image_metadata # NoImage
    /\ loc.exc # "" => pc \in HandlerPcs
    /\ (pc \in CreatePostPcs \/ hist.mediaUploads > 0 \/ hist.postRequests > 0)
        => loc.connected
    /\ HasStatusCall("Completed") =>
        /\ loc.post_result # NoPost
        /\ hist.postRequests > 0
        /\ Len(hist.statusCalls) = 2 /\ hist.statusCalls[1].status = "Processing"
    /\ (\E i \in 1..Len(ProperSteps) : ProperSteps[i] = "log_success")
        => HasStatusCall("Completed")

\* process_topic ran every step, the download included, and returned True.
C7_Witness ==
    /\ pc = "returned"
    /\ loc.ret = "True"
    /\ hist.steps = StepOrder

Populated == loc.wordpress_post_id # 0 /\ loc.wordpress_url # ""
Unset == loc.wordpress_post_id = 0 /\ loc.wordpress_url = ""

C9_OneLogPerWorkItem ==
    pc = "batch_return" => batch.logCalls = batch.stats.total

IsPrefix(s, t) == Len(s) <= Len(t) /\ \A i \in 1..Len(s) : s[i] = t[i]

\* The stages of a create_post attempt of this call, in the order of the code.
ExpectedStages ==
    (IF loc.image_data /\ loc.image_metadata # NoImage THEN <<"upload">> ELSE <<>>)
    \o (IF loc.categories # <<>> THEN <<"categories">> ELSE <<>>)
    \o (IF loc.tags # <<>> THEN <<"tags">> ELSE <<>>)
    \o <<"post">>

UploadPcs == {"call_upload_featured_image", "media", "media_alt",
              "end_upload_featured_image"}

RequestsFor(j) == SelectSeq(lab.requests, LAMBDA r : r.label = j)

\* The requests of label j: one search, followed by one create request only
\* when the search was answered with nothing.
OneSearchThenCreate(j) ==
    LET rs == RequestsFor(j) IN
    /\ Len(rs) \in {1, 2}
    /\ rs[1].request = "search"
    /\ Len(rs) = 2 <=> (rs[1].answer = 0 /\ (j < lab.i \/ lab.phase = "done"))
    /\ Len(rs) = 2 => rs[2].request = "create"

\* The identifiers the answers gave, in the order of the requests.
AnsweredIds ==
    LET good == SelectSeq(lab.requests, LAMBDA r : r.answer > 0)
    IN  [k \in 1..Len(good) |-> good[k].answer]

\* The labels that gave an identifier, in the order of the input list.
ResolvedLabels ==
    LET good == SelectSeq(lab.requests, LAMBDA r : r.answer > 0)
    IN  [k \in 1..Len(good) |-> lab.names[good[k].label]]

\* C11: taxonomy resolution returns the identifiers of the labels that
\* resolved, in the order of the input labels; every label is searched exactly
\* once, and a create request is sent, once, only after its search returned
\* nothing; a label whose search or creation failed gives no identifier, is
\* not asked again, and the loop goes on to the later labels and returns.
C11_LabelsResolved ==
    /\ lab.ids = AnsweredIds
    /\ \A k \in 1..Len(lab.requests) :
        /\ k > 1 => lab.requests[k].label >= lab.requests[k - 1].label
        /\ lab.requests[k].label \in 1..Len(lab.names)
    /\ \A j \in 1..Len(lab.names) :
        (j < lab.i \/ lab.phase = "done") => OneSearchThenCreate(j)
    /\ lab.phase # "done" => ENABLED LabelNext
    /\ lab.phase = "done" =>
        /\ Len(lab.outs) = Len(lab.names)
        /\ ResolvedLabels = _get_or_create(lab.names, lab.outs)
        /\ Len(lab.ids) <= Len(lab.names)

\* Two labels: the creation of the first failed, the second was then found
\* by its search, and only its identifier was returned.
C11_Witness ==
    /\ lab.phase = "done"
    /\ Len(lab.names) = 2
    /\ lab.outs = <<"create_error", "found">>
    /\ Len(lab.ids) = 1
    /\ Len(lab.requests) = 3

\* The status texts that read, without regard to case or surrounding blanks,
\* Completed, Processing or Failed.
DoneStatuses ==
    { "Completed", "COMPLETED", " completed ", "Processing", "processing",
      "Failed", "failed " }

PendingStatuses == {"", "Pending", "pending"}

C13_LimitRespected ==
    (pc \in {"batch_loop", "batch_return"} /\ ~batch.limit.none)
    => /\ Len(batch.topics) <= batch.limit.n
       /\ batch.stats.total <= batch.limit.n

Hrefs == FindHrefs(gen.html)

\* The claim's classes, from its words: internal when a candidate URL occurs
\* in the href; outbound when neither a candidate nor the site's domain does.
ClaimInternal(h) ==
    \E k \in 1..Len(gen.topic.internal_links) : Contains(gen.topic.internal_links[k], h)
ClaimOutbound(h) == ~ClaimInternal(h) /\ ~Contains(gen.topic.site_domain, h)

ContentDone == gen.fn = "content" /\ gen.done

\* C14 (as claimed): outbound_link is the first href, in document order, that
\* classifies as outbound, and is absent exactly when none does.
C14_FirstOutbound ==
    ContentDone =>
        IF \E i \in 1..Len(Hrefs) : ClaimOutbound(Hrefs[i])
        THEN LET first == CHOOSE i \in 1..Len(Hrefs) :
                    ClaimOutbound(Hrefs[i]) /\ \A j \in 1..(i - 1) : ~ClaimOutbound(Hrefs[j])
             IN  gen.outbound_link = Hrefs[first]
        ELSE gen.outbound_link = NoLink

\* C15: internal_links_used is the hrefs in which a candidate URL occurs, in
\* document order, once per occurrence; outbound_link is an href in which
\* neither a candidate nor the site's domain occurs, and is absent exactly
\* when there is none; an href of the site's own domain that is no candidate
\* is in neither; no href is in both; without candidates none is internal.
C15_Classification ==
    ContentDone =>
        /\ gen.internal_links_used = SelectSeq(Hrefs, ClaimInternal)
        /\ gen.outbound_link # NoLink =>
              \E i \in 1..Len(Hrefs) :
                  Hrefs[i] = gen.outbound_link /\ ClaimOutbound(Hrefs[i])
        /\ gen.outbound_link = NoLink <=>
              \A i \in 1..Len(Hrefs) : ~ClaimOutbound(Hrefs[i])
        /\ \A i \in 1..Len(Hrefs) :
              (~ClaimInternal(Hrefs[i]) /\ ~ClaimOutbound(Hrefs[i])) =>
                  /\ gen.outbound_link # Hrefs[i]
                  /\ \A k \in 1..Len(gen.internal_links_used) :
                        gen.internal_links_used[k] # Hrefs[i]
        /\ \A k \in 1..Len(gen.internal_links_used) :
              gen.internal_links_used[k] # gen.outbound_link
        /\ gen.topic.internal_links = <<>> => gen.internal_links_used = <<>>

\* An internal anchor twice with an anchor of the site's own domain between:
\* the internal one is kept twice, the other one in neither place.
C15_Witness ==
    /\ ContentDone
    /\ gen.html = <<"L1", "L3", "L1">>
    /\ gen.topic.internal_links # <<>>
    /\ gen.internal_links_used = << <<"e", "/", "a">>, <<"e", "/", "a">> >>
    /\ gen.outbound_link = NoLink

InsertAt(html, p, unit) == SubSeq(html, 1, p) \o <<unit>> \o SubSeq(html, p + 1, Len(html))

Tags == {"B", "Q"} \cup Anchors

\* C16 (as claimed): the word count is that of the text with the tags
\* stripped, and adding a tag anywhere in the HTML never changes it.
C16_MarkupInsensitive ==
    ContentDone =>
        /\ gen.html = ExampleHtml => gen.word_count = 2
        /\ \A p \in 0..Len(gen.html), tag \in Tags :
              WordCount(InsertAt(gen.html, p, tag)) = gen.word_count

AltStripped == StripChars(StripChars(gen.raw, {" "}), {"\"", "'"})

\* C17: the alt text generate_alt_text returns is the first 125 characters,
\* at most, of the answer without its quotes; the image of every provider
\* carries exactly that text, and so does the payload sent to the target.
C17_AltText ==
    (gen.fn = "alt" /\ gen.stage # "prompt") =>
        /\ Len(gen.alt_text) <= AltMax
        /\ IsPrefix(gen.alt_text, AltStripped)
        /\ Len(AltStripped) <= AltMax => gen.alt_text = AltStripped
        /\ gen.stage \in {"image", "uploaded"} => gen.image.alt_text = gen.alt_text
        /\ gen.stage = "uploaded" =>
              (gen.payload = gen.alt_text /\ Len(gen.payload) <= AltMax)

\* An answer longer than 125 characters reached the target through DALL-E's
\* image, cut to 125.
C17_Witness ==
    /\ gen.fn = "alt" /\ gen.stage = "uploaded"
    /\ Len(AltStripped) > AltMax
    /\ gen.image.source = "dalle"
    /\ Len(gen.payload) = AltMax

Running(j) == runs[j].pc \in {"read", "mark", "publish", "finish"}

\* C18: nothing keeps a job from starting while another job's run is in
\* progress; a run reads one topic at most, and once it has read a row as
\* pending it marks, publishes and finishes that row whatever the row's
\* status has become meanwhile; a row is marked Processing only by a run that
\* has already read it.
C18_NoOverlapGuard ==
    /\ \A j \in Jobs :
        /\ runs[j].pc = "waiting" => ENABLED job_start(j)
        /\ Len(runs[j].topics) <= 1
        /\ runs[j].pc = "mark" => ENABLED job_mark_processing(j)
        /\ runs[j].pc = "publish" => ENABLED job_publish(j)
        /\ runs[j].pc = "finish" => ENABLED job_finish(j)
        /\ runs[j].posted # 0 => wpPosts[runs[j].posted].row = RunRow(j)
    /\ \A i \in 1..Len(sheet) :
        sheet[i].status = "Processing" =>
            \E j \in Jobs : runs[j].topics # <<>> /\ RunRow(j) = i + FirstRow - 1

\* Two runs overlapped, both read the same pending row before either marked
\* it, and both published it.
C18_Witness ==
    \E i, j \in Jobs :
        /\ i # j
        /\ runs[i].posted # 0 /\ runs[j].posted # 0
        /\ runs[i].posted # runs[j].posted
        /\ RunRow(i) = RunRow(j)
        /\ wpPosts[runs[i].posted].row = wpPosts[runs[j].posted].row

\* C19: total is the number of pending topics retrieved; success is the
\* number of process_topic calls that returned True; success + failed never
\* exceeds total, counts the topics handled so far, and equals total when
\* process_batch returns; with no pending topics process_batch returns
\* success = failed = total = 0 and has called nothing.
C19_CountsAddUp ==
    pc # "idle" =>
        /\ batch.stats.total = Len(batch.topics)
        /\ batch.stats.success + batch.stats.failed <= batch.stats.total
        /\ pc = "returned" =>
              batch.trueReturns = batch.stats.success + (IF loc.ret = "True" THEN 1 ELSE 0)
        /\ pc \in {"batch_loop", "batch_return"} =>
              batch.stats.success = batch.trueReturns
        /\ (pc = "batch_loop" \/ (pc = "batch_return" /\ batch.topics # <<>>)) =>
              batch.stats.success + batch.stats.failed = batch.idx - 1
        /\ pc = "batch_return" =>
              batch.stats.success + batch.stats.failed = batch.stats.total
        /\ (pc = "batch_return" /\ batch.topics = <<>>) =>
              /\ batch.stats = StatsInit
              /\ batch.logCalls = 0
              /\ loc = LocInit /\ hist = HistInit
              /\ wpPosts = <<>> /\ logs = <<>>

\* A batch of two topics returned: one was published, one failed.
C19_Witness ==
    /\ pc = "batch_return"
    /\ batch.stats = [success |-> 1, failed |-> 1, total |-> 2]
    /\ batch.trueReturns = 1
    /\ Len(wpPosts) >= 1

ConnectionTested == loc.answer # ""

\* test_connection itself raised (process_topic raises the other text when
\* it got False).
ConnectionRaised == loc.exc = "connection response error"
ConnectionFalse == loc.exc = "WordPress connection failed"

ModeOrder == <<"demo", "batch", "schedule", "test_connections", "create_template">>

\* Whether the flag of a mode is on the command line.
Given(mode) ==
    CASE mode = "demo" -> cli.args.demo
      [] mode = "batch" -> ~cli.args.batch.none
      [] mode = "schedule" -> cli.args.schedule
      [] mode = "test_connections" -> cli.args.test_connections
      [] mode = "create_template" -> cli.args.create_template

Dispatched == cli.entry = "main" /\ cli.pc # "start"

\* C21: one invocation of main executes at most one mode: the first one, in
\* the order demo, batch, schedule, test-connections, create-template, whose
\* flag is given (--batch 0 included); no mode after it is executed, and
\* without any mode flag no mode runs.
C21_FirstModeWins ==
    /\ Len(cli.modes) <= 1
    /\ cli.pc = "start" => cli.modes = <<>>
    /\ Dispatched =>
        /\ (\A k \in 1..Len(ModeOrder) : ~Given(ModeOrder[k])) <=> cli.modes = <<>>
        /\ \A k \in 1..Len(ModeOrder) :
              cli.modes = <<ModeOrder[k]>>
                 <=> (Given(ModeOrder[k]) /\ \A j \in 1..(k - 1) : ~Given(ModeOrder[j]))
    /\ cli.pc \in {"run_batch_job", "process_batch"} => cli.modes = <<"batch">>
    /\ (cli.entry = "main" /\ cli.message # "") => cli.modes = <<"batch">>

\* --batch 0 given together with --schedule and --create-template: only the
\* batch run was executed.
C21_Witness ==
    /\ cli.entry = "main"
    /\ cli.pc = "exit"
    /\ ~cli.args.demo /\ cli.args.batch = Limit(0)
    /\ cli.args.schedule /\ cli.args.create_template
    /\ cli.modes = <<"batch">>
    /\ cli.returned

Sinks == [k \in 1..Len(cli.requests) |-> cli.requests[k].sink]

\* The sinks a message must reach under the settings, in the order of _send.
ConfiguredSinks ==
    (IF cli.env.telegram_bot_token /\ cli.env.telegram_chat_id
     THEN <<"telegram">> ELSE <<>>)
    \o (IF cli.env.slack_webhook_url THEN <<"slack">> ELSE <<>>)

\* C22: send_batch_summary, send_success and send_failure never raise,
\* whatever the Telegram or Slack request does; every configured sink gets
\* exactly one request per message, Slack also after a failed Telegram
\* request; a sink that is not fully configured gets none; and the batch
\* summary is sent only after process_batch has returned.
C22_BestEffort ==
    /\ IsPrefix(Sinks, ConfiguredSinks)
    /\ cli.pc \in {"sent", "exit"} /\ cli.message # "" =>
        /\ Sinks = ConfiguredSinks
        /\ cli.raised = ""
    /\ cli.pc = "slack" => Sinks = SelectSeq(ConfiguredSinks, LAMBDA x : x = "telegram")
    /\ cli.raised # "" => (cli.requests = <<>> /\ cli.message = "")
    /\ (cli.entry = "main" /\ (cli.requests # <<>> \/ cli.message # ""))
        => (cli.returned /\ cli.message = "send_batch_summary")
    /\ cli.pc \in {"start", "run_batch_job", "process_batch"} => cli.requests = <<>>
    /\ cli.pc # "exit" => ENABLED MainNext

\* The batch summary of a batch run: the Telegram request timed out and the
\* Slack request was still sent, once, and nothing was raised.
C22_Witness ==
    /\ cli.entry = "main"
    /\ cli.pc = "exit"
    /\ cli.message = "send_batch_summary"
    /\ cli.requests = << [sink |-> "telegram", outcome |-> "transport_error"],
                         [sink |-> "slack", outcome |-> "ok"] >>
    /\ cli.raised = ""

\* C23 (as claimed): one call of process_topic creates at most one post on
\* the target, and sends no post-creation request after one was accepted.
C23_OnePostPerTopic ==
    /\ hist.created <= 1
    /\ hist.created >= 1 => hist.postRequests = hist.created
    /\ Cardinality({ i \in 1..Len(wpPosts) : wpPosts[i].row = loc.row }) <= 1

\* C24 (as claimed): one call of process_topic has the target store the
\* featured image at most once, whatever the retries of create_post.
C24_OneUploadPerTopic ==
    hist.uploaded <= 1

StatusesCalled == [k \in 1..Len(hist.statusCalls) |-> hist.statusCalls[k].status]

C26_NeverRepublished ==
    \A i, j \in Jobs :
        (/\ i \in runs[j].after
         /\ runs[i].posted # 0
         /\ runs[j].topics # <<>>)
        => RunRow(j) # RunRow(i)

\* The topics of the batch that the loop has already handled.
Handled == 1..(IF batch.idx = 0 THEN 0 ELSE batch.idx - 1)

NoSiteHandled == { k \in Handled : ~HasSite(batch.topics[k]) }

SheetIndex(topic) == topic.row_number - FirstRow + 1

\* C27: a topic of the batch whose site domain matches no configured site is
\* counted as failed and nothing else happens for it: process_topic is not
\* called, so no generation, image or publishing call is made, no post is
\* created, no status is written to its row and no log row is appended; its
\* row is unchanged, and the next get_pending_topics returns it again.
C27_NoSiteSkipped ==
    (pc \in {"batch_loop", "batch_return"}) =>
        /\ batch.stats.failed >= Cardinality(NoSiteHandled)
        /\ batch.logCalls = Cardinality(Handled \ NoSiteHandled)
        /\ batch.trueReturns <= Cardinality(Handled \ NoSiteHandled)
        /\ batch.stats.failed
              = Cardinality(NoSiteHandled)
                + Cardinality(Handled \ NoSiteHandled) - batch.trueReturns
        /\ \A k \in NoSiteHandled :
            LET topic == batch.topics[k] IN
            /\ sheet[SheetIndex(topic)].status = ""
            /\ sheet[SheetIndex(topic)].url = ""
            /\ \A i \in 1..Len(wpPosts) : wpPosts[i].row # topic.row_number
            /\ \A i \in 1..Len(logs) : logs[i].row # topic.row_number
            /\ topic.row_number \in TopicRows(get_pending_topics(sheet, NoLimit, TRUE))
        /\ (Handled # {} /\ NoSiteHandled = Handled) =>
              /\ logs = <<>> /\ wpPosts = <<>>
              /\ loc = LocInit /\ hist = HistInit
              /\ \A i \in 1..Len(sheet) : sheet[i].status \in InitStatuses

\* A batch of two topics returned: the first had no site and its row is still
\* pending, the second was published after it.
C27_Witness ==
    /\ pc = "batch_return"
    /\ Len(batch.topics) = 2
    /\ NoSiteHandled = {1}
    /\ batch.stats = [success |-> 1, failed |-> 1, total |-> 2]
    /\ sheet[SheetIndex(batch.topics[1])].status = ""
    /\ sheet[SheetIndex(batch.topics[2])].status = "Completed"
    /\ Len(logs) = 1

\* Site k's URL contains the domain, letter case apart.
UrlHolds(k, domain) == Contains(Lower(domain), Lower(wordpress_sites[k].url))

\* C28 (as claimed): a topic goes only to a configured site whose URL
\* contains its site domain, letter case apart, and to the first such site in
\* configuration order; a topic with an empty Site Domain matches no site.
C28_SiteMatch ==
    find.stage = "found" =>
        /\ find.site # NoSite =>
              \E k \in 1..Len(wordpress_sites) :
                  /\ find.site = wordpress_sites[k]
                  /\ UrlHolds(k, find.site_domain)
                  /\ \A j \in 1..(k - 1) : ~UrlHolds(j, find.site_domain)
        /\ find.site = NoSite =>
              \A k \in 1..Len(wordpress_sites) : ~UrlHolds(k, find.site_domain)
        /\ find.cell = <<>> => find.site = NoSite

\* process_topic is past the image steps.
AfterImagePcs ==
    {"test_connection", "check_post", "mark_completed", "log_success"}
    \cup CreatePostPcs

\* No image came back, or its download gave nothing.
NoImageData == loc.image_metadata = NoImage \/ ~loc.image_data

\* C29: failing to obtain an image never fails a WorkItem: no exception comes
\* out of the image steps; when get_image_for_topic or download_and_prepare
\* returned none, process_topic goes on to the connection test and the post
\* creation, no media upload request is sent, and the post request carries
\* no featured_media.
C29_ImageOptional ==
    /\ loc.exc # "" =>
          ProperSteps[Len(ProperSteps)] \notin {"acquire_image", "download"}
    /\ pc = "download" => ENABLED (download_and_prepare \/ skip_download)
    /\ pc = "test_connection" => (loc.exc = "" /\ ENABLED test_connection)
    /\ (pc \in AfterImagePcs /\ NoImageData) =>
        /\ pc \notin UploadPcs
        /\ hist.mediaUploads = 0
        /\ cp.featured_media_id = 0
        /\ cp.featured_media = 0
    /\ (pc = "returned" /\ loc.connected /\ NoImageData) =>
        /\ hist.mediaUploads = 0
        /\ hist.postRequests >= 1
        /\ loc.ret = "True" <=> loc.post_result # NoPost

\* All three providers gave nothing, and the WorkItem was still published,
\* without any media upload, and its row marked Completed.
C29_Witness ==
    /\ pc = "returned"
    /\ loc.ret = "True"
    /\ Len(hist.tiers) = 3
    /\ loc.image_metadata = NoImage
    /\ hist.mediaUploads = 0
    /\ hist.created = 1
    /\ sheet[RowIndex].status = "Completed"

\* C30 (as claimed): when the media upload of an attempt gave a media
\* identifier, the post request of that attempt carries it as featured_media,
\* whatever the alt-text request did.
C30_MediaAttached ==
    (pc = "end_create_post" /\ cp.media_id # 0)
        => cp.featured_media = cp.media_id

====
